---- MODULE Spec2Model ----
(***************************************************************************)
(* humblAPI: the response-cache key builder, the Redis flush operations    *)
(* (pattern flush and full flush) and the data routes' error handling.     *)
(*                                                                         *)
(* Strings whose characters matter (cache keys, glob patterns, query       *)
(* parameters, symbols) are sequences of one-character strings; strings    *)
(* that are only compared as a whole (messages, tokens) are TLA+ strings.  *)
(***************************************************************************)
EXTENDS Integers, Sequences, FiniteSets, TLC

VARIABLES
    store,      \* the Redis database: a function from the keys it holds to their values
    secret,     \* config.FLUSH_API_TOKEN
    pc,         \* position of the flush request in flush_redis / redis_delete_pattern
    req,        \* the flush request being served
    records,    \* local `records` (first dbsize)
    cur,        \* the key scan_iter yielded last
    stable,     \* keys matching the pattern held without interruption since the scan began
    resp,       \* the response of the flush request
    calls,      \* store calls the flush request has made
    ndel,       \* keys the flush request removed from the store
    writes,     \* writes of other requests since the flush request arrived
    store0,     \* the store when the flush request arrived
    nflush,     \* flush requests served so far
    nwrite,     \* writes of other requests so far
    kin,        \* two requests handed to request_key_builder
    kout,       \* the keys request_key_builder returned for them
    rin,        \* the request a data route is serving
    rout,       \* what the caller of the data route gets
    first,      \* the outcome of the first run when a flush request is repeated
    cache,      \* the response cache: the entries held under the cached routes' keys
    now,        \* the clock of the store, in seconds
    nadv,       \* how many times the clock has been advanced
    cres        \* the last response of a cached route

flushVars == <<store, secret, pc, req, records, cur, stable, resp, calls, ndel,
               writes, store0, nflush, nwrite>>
keyVars == <<kin, kout>>
routeVars == <<rin, rout>>
againVars == <<first>>
cacheVars == <<cache, now, nadv, cres>>
vars == <<flushVars, keyVars, routeVars, againVars, cacheVars>>

(***************************************************************************)
(* Bounds of the model.                                                    *)
(***************************************************************************)
MaxFlush == 1
MaxWrite == 1

(***************************************************************************)
(* Character strings.                                                      *)
(***************************************************************************)
PrefixStr == <<"f","a","s","t","a","p","i","-","c","a","c","h","e">>
Colon == <<":">>
Star == <<"*">>

KeyA == PrefixStr \o Colon \o <<"a">>
KeyB == PrefixStr \o Colon \o <<"b">>
KeyC == <<"o","t","h","e","r",":","c">>
KeyN == <<"n","s",":","x">>
KeyM == <<"n","s","x">>

Keys == {KeyA, KeyB, KeyC, KeyN, KeyM}
Values == {"v1", "v2"}

NsStr == <<"n","s">>
Patterns == {PrefixStr \o Colon \o Star, NsStr \o Colon \o Star}

StartsWith(s, p) ==
    /\ Len(s) >= Len(p)
    /\ SubSeq(s, 1, Len(p)) = p

(***************************************************************************)
(* Redis glob matching of MATCH patterns, for the pattern characters the   *)
(* program's patterns and keys can hold: '*' (any run of characters),      *)
(* '?' (any one character) and literal characters.                         *)
(***************************************************************************)
RECURSIVE GlobMatch(_, _)
GlobMatch(p, s) ==
    IF p = <<>> THEN s = <<>>
    ELSE IF Head(p) = "*"
        THEN GlobMatch(Tail(p), s) \/ (s # <<>> /\ GlobMatch(p, Tail(s)))
    ELSE IF s = <<>> THEN FALSE
    ELSE IF Head(p) = "?" \/ Head(p) = Head(s)
        THEN GlobMatch(Tail(p), Tail(s))
    ELSE FALSE

(***************************************************************************)
(* The store's commands.                                                   *)
(***************************************************************************)
EmptyStore == [k \in {} |-> "v1"]

Dbsize(st) == Cardinality(DOMAIN st)

RedisSet(st, key, v) ==
    [k \in (DOMAIN st) \cup {key} |-> IF k = key THEN v ELSE st[k]]

RedisDelete(st, key) == [k \in (DOMAIN st) \ {key} |-> st[k]]

ScanMatch(st, pattern) == {k \in DOMAIN st : GlobMatch(pattern, k)}

(***************************************************************************)
(* Flush requests and their responses.                                     *)
(***************************************************************************)
(* a configuration whose unset secret is the empty string *)
NoSecretIsEmptyString == [tag |-> "str", val |-> ""]

(* FLUSH_API_TOKEN is unset: Config.FLUSH_API_TOKEN is None *)
NoSecret == [tag |-> "none", val |-> ""]
Secrets == {NoSecret, [tag |-> "str", val |-> "s3cret"]}
Tokens == {"s3cret", "wrong", ""}

NoReq == [endpoint |-> "none", token |-> "", cacheOnly |-> FALSE, pattern |-> <<>>]
NoResp == [status |-> 0, message |-> "", has_count |-> FALSE, records_deleted |-> 0]

CachePattern == PrefixStr \o Colon \o Star

(* a 403 whose detail quotes the secret the token was compared with *)
ForbiddenEchoesSecret == [status |-> 403, message |-> secret.val,
                          has_count |-> FALSE, records_deleted |-> 0]

Forbidden == [status |-> 403, message |-> "Invalid API token",
              has_count |-> FALSE, records_deleted |-> 0]

CacheFlushed(n) == [status |-> 200, message |-> "FastAPI cache was flushed successfully.",
                    has_count |-> TRUE, records_deleted |-> n]

CoreFlushed(n) == [status |-> 200, message |-> "Redis database flushed successfully.",
                   has_count |-> TRUE, records_deleted |-> n]

MainFlushed == [status |-> 200, message |-> "Redis database flushed successfully",
                has_count |-> FALSE, records_deleted |-> 0]

FlushError == [status |-> 500, message |-> "Error flushing Redis: connection lost",
               has_count |-> FALSE, records_deleted |-> 0]

(* the positions at which the flush request awaits a store call *)
StoreCallPositions == {"dbsize1", "scan0", "scan", "delete", "dbsize2", "flushdb"}

(* a flush secret that defaults to the empty string instead of None *)
TokenOkUnsetIsEmpty(token) == secret.val = token

TokenOk(token) == secret.tag = "str" /\ secret.val = token

(* the second dbsize returned in place of the difference *)
RecordsLeftReturned(before, left) == left

RecordsDeleted(before, left) == before - left

NoRouteInput == [route |-> "none", symbols |-> <<>>, valid |-> TRUE, upstream |-> "ok",
                 chart |-> FALSE, equity_data |-> FALSE, extract |-> "ok"]
NoRouteOutput == [kind |-> "none", status |-> 0, detail |-> "", extra |-> "null",
                  log |-> "", body |-> [j |-> "null", v |-> <<>>],
                  upstream_called |-> FALSE]

NoFirst == [done |-> FALSE, store |-> EmptyStore, records_deleted |-> 0]

EmptyCache == [r \in {} |-> 0]

NoCacheResponse == [route |-> "none", source |-> "none", status |-> 0,
                    body |-> [t |-> "none", v |-> <<>>],
                    orig |-> [t |-> "none", v |-> <<>>], age |-> 0,
                    steps |-> <<>>, backend |-> "redis", ping |-> "pong",
                    detail |-> ""]

NoKeyInput == [namespace |-> <<>>, method |-> <<>>, path |-> <<>>,
               q1 |-> <<>>, q2 |-> <<>>]

Init ==
    /\ store \in UNION {[S -> {"v1"}] : S \in SUBSET Keys}
    /\ secret \in Secrets
    /\ pc = "idle"
    /\ req = NoReq
    /\ records = 0
    /\ cur = <<>>
    /\ stable = {}
    /\ resp = NoResp
    /\ calls = 0
    /\ ndel = 0
    /\ writes = 0
    /\ store0 = store
    /\ nflush = 0
    /\ nwrite = 0
    /\ kin = NoKeyInput
    /\ kout = <<>>
    /\ rin = NoRouteInput
    /\ rout = NoRouteOutput
    /\ first = NoFirst
    /\ cache = EmptyCache
    /\ now = 0
    /\ nadv = 0
    /\ cres = NoCacheResponse

Arrive(endpoint, token, cacheOnly, pattern) ==
    /\ pc = "idle"
    /\ nflush < MaxFlush
    /\ req' = [endpoint |-> endpoint, token |-> token,
               cacheOnly |-> cacheOnly, pattern |-> pattern]
    /\ UNCHANGED <<store, secret, records, cur, stable, calls, ndel, writes,
                   store0, nflush, nwrite>>
    /\ UNCHANGED <<keyVars, routeVars, againVars, cacheVars>>

(* core.py flush_redis, up to its first store call *)
FlushRedisCore ==
    \E token \in Tokens, cacheOnly \in BOOLEAN :
        /\ Arrive("core", token, cacheOnly, IF cacheOnly THEN CachePattern ELSE <<>>)
        /\ IF TokenOk(token)
              THEN pc' = "dbsize1" /\ resp' = NoResp
              ELSE pc' = "done" /\ resp' = Forbidden

(* main.py flush_redis, up to its first store call *)
FlushRedisMain ==
    \E token \in Tokens :
        /\ Arrive("main", token, FALSE, <<>>)
        /\ IF TokenOk(token)
              THEN pc' = "flushdb" /\ resp' = NoResp
              ELSE pc' = "done" /\ resp' = Forbidden

(* redis_delete_pattern called with a pattern of the caller's choice *)
DeletePatternCall ==
    \E pattern \in Patterns :
        /\ Arrive("direct", "", TRUE, pattern)
        /\ pc' = "dbsize1"
        /\ resp' = NoResp

(* records = await redis.dbsize() *)
Dbsize1 ==
    /\ pc = "dbsize1"
    /\ records' = Dbsize(store)
    /\ calls' = calls + 1
    /\ pc' = IF req.cacheOnly THEN "scan0" ELSE "flushdb"
    /\ UNCHANGED <<store, secret, req, cur, stable, resp, ndel, writes, store0,
                   nflush, nwrite>>
    /\ UNCHANGED <<keyVars, routeVars, againVars, cacheVars>>

(* the first SCAN round trip of redis.scan_iter(match=pattern) *)
ScanBegin ==
    /\ pc = "scan0"
    /\ stable' = ScanMatch(store, req.pattern)
    /\ calls' = calls + 1
    /\ pc' = "scan"
    /\ UNCHANGED <<store, secret, req, records, cur, resp, ndel, writes, store0,
                   nflush, nwrite>>
    /\ UNCHANGED <<keyVars, routeVars, againVars, cacheVars>>

(* a scan without the MATCH filter: it yields any key the store holds *)
ScanYieldUnfiltered ==
    /\ pc = "scan"
    /\ \E k \in DOMAIN store : cur' = k
    /\ calls' = calls + 1
    /\ pc' = "delete"
    /\ UNCHANGED <<store, secret, req, records, stable, resp, ndel, writes, store0,
                   nflush, nwrite>>
    /\ UNCHANGED <<keyVars, routeVars, againVars, cacheVars>>

(* scan_iter yields a matching key: one the store holds at this moment *)
ScanYield ==
    /\ pc = "scan"
    /\ \E k \in ScanMatch(store, req.pattern) : cur' = k
    /\ calls' = calls + 1
    /\ pc' = "delete"
    /\ UNCHANGED <<store, secret, req, records, stable, resp, ndel, writes, store0,
                   nflush, nwrite>>
    /\ UNCHANGED <<keyVars, routeVars, againVars, cacheVars>>

(* a scan loop that stops although keys held throughout the scan were not yielded *)
ScanEndEarly ==
    /\ pc = "scan"
    /\ pc' = "dbsize2"
    /\ UNCHANGED <<store, secret, req, records, cur, stable, resp, calls, ndel,
                   writes, store0, nflush, nwrite>>
    /\ UNCHANGED <<keyVars, routeVars, againVars, cacheVars>>

(* scan_iter is exhausted: every key held throughout the scan has been yielded *)
ScanEnd ==
    /\ pc = "scan"
    /\ stable = {}
    /\ pc' = "dbsize2"
    /\ UNCHANGED <<store, secret, req, records, cur, stable, resp, calls, ndel,
                   writes, store0, nflush, nwrite>>
    /\ UNCHANGED <<keyVars, routeVars, againVars, cacheVars>>

(* await redis.delete(key) *)
Delete ==
    /\ pc = "delete"
    /\ store' = RedisDelete(store, cur)
    /\ ndel' = IF cur \in DOMAIN store THEN ndel + 1 ELSE ndel
    /\ stable' = stable \ {cur}
    /\ calls' = calls + 1
    /\ pc' = "scan"
    /\ UNCHANGED <<secret, req, records, cur, resp, writes, store0, nflush, nwrite>>
    /\ UNCHANGED <<keyVars, routeVars, againVars, cacheVars>>

(* records_left = await redis.dbsize(); return records - records_left *)
Dbsize2 ==
    /\ pc = "dbsize2"
    /\ resp' = IF req.endpoint = "core"
                  THEN CacheFlushed(RecordsDeleted(records, Dbsize(store)))
                  ELSE [NoResp EXCEPT !.has_count = TRUE,
                            !.records_deleted = RecordsDeleted(records, Dbsize(store))]
    /\ calls' = calls + 1
    /\ pc' = "done"
    /\ UNCHANGED <<store, secret, req, records, cur, stable, ndel, writes, store0,
                   nflush, nwrite>>
    /\ UNCHANGED <<keyVars, routeVars, againVars, cacheVars>>

(* await redis.flushdb() *)
FlushDb ==
    /\ pc = "flushdb"
    /\ store' = EmptyStore
    /\ ndel' = Dbsize(store)
    /\ resp' = IF req.endpoint = "core" THEN CoreFlushed(records) ELSE MainFlushed
    /\ calls' = calls + 1
    /\ pc' = "done"
    /\ UNCHANGED <<secret, req, records, cur, stable, writes, store0, nflush, nwrite>>
    /\ UNCHANGED <<keyVars, routeVars, againVars, cacheVars>>

(* a store call of the flush request raises (the connection to Redis is     *)
(* lost), or the request is cancelled while it awaits the call.  The        *)
(* command was applied before the reply was lost, or it was not.  An        *)
(* exception is caught by flush_redis and answered 500; redis_delete_pattern *)
(* itself lets it through; a cancellation is not an Exception and ends the  *)
(* request without a response.                                              *)
Interrupted ==
    \E kind \in {"failed", "cancelled"}, applied \in BOOLEAN :
        /\ pc \in StoreCallPositions
        /\ applied => pc \in {"delete", "flushdb"}
        /\ store' = IF ~applied THEN store
                    ELSE IF pc = "delete" THEN RedisDelete(store, cur)
                    ELSE EmptyStore
        /\ ndel' = IF ~applied THEN ndel
                   ELSE IF pc = "delete"
                       THEN (IF cur \in DOMAIN store THEN ndel + 1 ELSE ndel)
                   ELSE Dbsize(store)
        /\ calls' = calls + 1
        /\ resp' = IF kind = "failed" /\ req.endpoint # "direct"
                      THEN FlushError ELSE NoResp
        /\ pc' = kind
        /\ UNCHANGED <<secret, req, records, cur, stable, writes, store0, nflush,
                       nwrite>>
        /\ UNCHANGED <<keyVars, routeVars, againVars, cacheVars>>

(* the response has been sent; the next flush request can arrive *)
Finish ==
    /\ pc \in {"done", "failed", "cancelled"}
    /\ pc' = "idle"
    /\ nflush' = nflush + 1
    /\ req' = NoReq
    /\ resp' = NoResp
    /\ records' = 0
    /\ cur' = <<>>
    /\ stable' = {}
    /\ calls' = 0
    /\ ndel' = 0
    /\ writes' = 0
    /\ store0' = store
    /\ UNCHANGED <<store, secret, nwrite>>
    /\ UNCHANGED <<keyVars, routeVars, againVars, cacheVars>>

(* a write that waits for a lock the flush would hold across its store     *)
(* calls                                                                    *)
WriteWaitsForFlush ==
    \E k \in Keys, v \in Values :
        /\ pc = "idle"
        /\ nwrite < MaxWrite
        /\ store' = RedisSet(store, k, v)
        /\ nwrite' = nwrite + 1
        /\ writes' = writes
        /\ store0' = store'
        /\ UNCHANGED <<secret, pc, req, records, cur, stable, resp, calls, ndel,
                       nflush>>
        /\ UNCHANGED <<keyVars, routeVars, againVars, cacheVars>>

(* another request writes a cache entry: backend.set(key, value, expire) *)
Write ==
    \E k \in Keys, v \in Values :
        /\ nwrite < MaxWrite
        /\ store' = RedisSet(store, k, v)
        /\ nwrite' = nwrite + 1
        /\ writes' = IF pc = "idle" THEN writes ELSE writes + 1
        /\ store0' = IF pc = "idle" THEN store' ELSE store0
        /\ UNCHANGED <<secret, pc, req, records, cur, stable, resp, calls, ndel,
                       nflush>>
        /\ UNCHANGED <<keyVars, routeVars, againVars, cacheVars>>

Next ==
    \/ FlushRedisCore
    \/ FlushRedisMain
    \/ DeletePatternCall
    \/ Dbsize1
    \/ ScanBegin
    \/ ScanYield
    \/ ScanEnd
    \/ Delete
    \/ Dbsize2
    \/ FlushDb
    \/ Interrupted
    \/ Finish
    \/ Write

Spec == Init /\ [][Next]_vars

(***************************************************************************)
(* The same flush request issued a second time, right after the first was  *)
(* answered, with no other request writing to the store.                   *)
(***************************************************************************)
FlushAgain ==
    /\ pc = "done"
    /\ resp.has_count
    /\ ~first.done
    /\ first' = [done |-> TRUE, store |-> store,
                 records_deleted |-> resp.records_deleted]
    /\ pc' = "dbsize1"
    /\ resp' = NoResp
    /\ records' = 0
    /\ cur' = <<>>
    /\ stable' = {}
    /\ calls' = 0
    /\ ndel' = 0
    /\ store0' = store
    /\ UNCHANGED <<store, secret, req, writes, nflush, nwrite>>
    /\ UNCHANGED <<keyVars, routeVars, cacheVars>>

NextTwice ==
    \/ FlushRedisCore
    \/ DeletePatternCall
    \/ Dbsize1
    \/ ScanBegin
    \/ ScanYield
    \/ ScanEnd
    \/ Delete
    \/ Dbsize2
    \/ FlushDb
    \/ FlushAgain

SpecTwice == Init /\ [][NextTwice]_vars

(***************************************************************************)
(* The cached routes' namespaces and the keys the cache decorator stores    *)
(* their responses under: "<prefix>:<namespace>:<digest of the call>".      *)
(***************************************************************************)
HumblCompassNs == <<"h","u","m","b","l","C","O","M","P","A","S","S">>
(* a namespace for the backtest route that holds the key delimiter *)
HumblCompassBacktestNsWithColon ==
    <<"h","u","m","b","l","C","O","M","P","A","S","S",":","b","a","c","k","t","e","s","t">>

HumblCompassBacktestNs ==
    <<"h","u","m","b","l","C","O","M","P","A","S","S","_","b","a","c","k","t","e","s","t">>
(* the namespace of the routes cached without one: root, health, redis-health *)
DefaultNs == <<>>

RouteNamespaces == {HumblCompassNs, HumblCompassBacktestNs, DefaultNs}

(* stand-ins for the hexadecimal digests of two different calls *)
Digests == {<<"0","a">>, <<"f","1">>}

(* keys built without the prefix set at start-up *)
CacheKeyWithoutPrefix(namespace, digest) == namespace \o Colon \o digest

(* the key of an entry: the prefix of FastAPICache.init, the namespace of   *)
(* the route's decorator and the digest of the call                         *)
CacheKey(namespace, digest) == PrefixStr \o Colon \o namespace \o Colon \o digest

NsKeys == {CacheKey(ns, d) : ns \in RouteNamespaces, d \in Digests}

(* the pattern that selects the entries of one namespace *)
NamespacePattern(namespace) == PrefixStr \o Colon \o namespace \o Colon \o Star

InitNs ==
    /\ store \in UNION {[S -> {"v1"}] : S \in SUBSET NsKeys}
    /\ secret = NoSecret
    /\ pc = "idle"
    /\ req = NoReq
    /\ records = 0
    /\ cur = <<>>
    /\ stable = {}
    /\ resp = NoResp
    /\ calls = 0
    /\ ndel = 0
    /\ writes = 0
    /\ store0 = store
    /\ nflush = 0
    /\ nwrite = 0
    /\ kin = NoKeyInput
    /\ kout = <<>>
    /\ rin = NoRouteInput
    /\ rout = NoRouteOutput
    /\ first = NoFirst
    /\ cache = EmptyCache
    /\ now = 0
    /\ nadv = 0
    /\ cres = NoCacheResponse

(* redis_delete_pattern called with the pattern of one namespace *)
InvalidateNamespace ==
    \E ns \in RouteNamespaces :
        /\ Arrive("namespace", "", TRUE, NamespacePattern(ns))
        /\ pc' = "dbsize1"
        /\ resp' = NoResp

(* a cached route stores a response: backend.set(cache_key, value, expire) *)
CacheSet ==
    \E ns \in RouteNamespaces, d \in Digests, v \in Values :
        /\ nwrite < MaxWrite
        /\ store' = RedisSet(store, CacheKey(ns, d), v)
        /\ nwrite' = nwrite + 1
        /\ writes' = IF pc = "idle" THEN writes ELSE writes + 1
        /\ store0' = IF pc = "idle" THEN store' ELSE store0
        /\ UNCHANGED <<secret, pc, req, records, cur, stable, resp, calls, ndel,
                       nflush>>
        /\ UNCHANGED <<keyVars, routeVars, againVars, cacheVars>>

NextNs ==
    \/ InvalidateNamespace
    \/ CacheSet
    \/ Dbsize1
    \/ ScanBegin
    \/ ScanYield
    \/ ScanEnd
    \/ Delete
    \/ Dbsize2
    \/ Finish

SpecNs == InitNs /\ [][NextNs]_vars

(***************************************************************************)
(* Requests to cached routes around a flush of core.py's flush_redis.  The *)
(* store holds entries of cached routes and a key of another application.  *)
(***************************************************************************)
InitFlushCache ==
    /\ store \in UNION {[S -> {"v1"}] : S \in SUBSET (NsKeys \cup {KeyC})}
    /\ secret = [tag |-> "str", val |-> "s3cret"]
    /\ pc = "idle"
    /\ req = NoReq
    /\ records = 0
    /\ cur = <<>>
    /\ stable = {}
    /\ resp = NoResp
    /\ calls = 0
    /\ ndel = 0
    /\ writes = 0
    /\ store0 = store
    /\ nflush = 0
    /\ nwrite = 0
    /\ kin = NoKeyInput
    /\ kout = <<>>
    /\ rin = NoRouteInput
    /\ rout = NoRouteOutput
    /\ first = NoFirst
    /\ cache = EmptyCache
    /\ now = 0
    /\ nadv = 0
    /\ cres = NoCacheResponse

(* the route cached under the namespace *)
NsRoute(namespace) ==
    CASE namespace = HumblCompassNs -> "humblCOMPASS"
      [] namespace = HumblCompassBacktestNs -> "humblCOMPASS/backtest"
      [] OTHER -> "health"

(* a request to a cached route, served after the flush request was          *)
(* answered (the entries of earlier requests are in the initial store):     *)
(* the decorator looks its key up in the store; on a hit the entry is       *)
(* answered, on a miss the route function runs and its answer is stored     *)
(* under the key                                                            *)
CachedRequest ==
    \E ns \in RouteNamespaces, d \in Digests :
        /\ pc = "done"
        /\ IF CacheKey(ns, d) \in DOMAIN store
            THEN /\ cres' = [NoCacheResponse EXCEPT !.route = NsRoute(ns),
                                 !.source = "cache", !.status = 200,
                                 !.steps = <<"key", "lookup">>]
                 /\ UNCHANGED <<flushVars, cache, now, nadv>>
                 /\ UNCHANGED <<keyVars, routeVars, againVars>>
            ELSE /\ nwrite < MaxWrite
                 /\ cres' = [NoCacheResponse EXCEPT !.route = NsRoute(ns),
                                 !.source = "handler", !.status = 200,
                                 !.steps = <<"key", "lookup", "handler", "write">>]
                 /\ store' = RedisSet(store, CacheKey(ns, d), "v2")
                 /\ nwrite' = nwrite + 1
                 /\ writes' = writes + 1
                 /\ UNCHANGED <<secret, pc, req, records, cur, stable, resp, calls,
                                ndel, store0, nflush>>
                 /\ UNCHANGED <<cache, now, nadv>>
                 /\ UNCHANGED <<keyVars, routeVars, againVars>>

NextFlushCache ==
    \/ FlushRedisCore
    \/ CachedRequest
    \/ Dbsize1
    \/ ScanBegin
    \/ ScanYield
    \/ ScanEnd
    \/ Delete
    \/ Dbsize2
    \/ FlushDb
    \/ Finish

SpecFlushCache == InitFlushCache /\ [][NextFlushCache]_vars

(***************************************************************************)
(* The cached routes.  A Python value is a record [t, v]: its type and its *)
(* content; a JSON document is a record [j, v].  A dict, a model and a     *)
(* JSON object hold a sequence of <<name, value>> pairs.                   *)
(***************************************************************************)
MaxAdvance == 1

RedisHealthExpire == 10
HealthExpire == 60
DailyExpire == 86000
MomentumExpire == 86400
CompassExpire == 2629757

CachedRoutes == {"health", "redis-health", "last-close", "mandelbrot-channel",
                 "humblMOMENTUM", "humblCOMPASS"}

(* a cache that writes every entry with one default TTL *)
ExpireShared(route) == HealthExpire

(* the expire argument of the route's @cache decorator *)
Expire(route) ==
    CASE route = "redis-health" -> RedisHealthExpire
      [] route = "health" -> HealthExpire
      [] route \in {"last-close", "mandelbrot-channel"} -> DailyExpire
      [] route = "humblMOMENTUM" -> MomentumExpire
      [] route = "humblCOMPASS" -> CompassExpire

(* the routes decorated with coder=ORJsonCoder *)
OrjsonRoutes == {"last-close", "mandelbrot-channel", "humblMOMENTUM", "humblCOMPASS"}

PyNone == [t |-> "none", v |-> <<>>]
PyStr(x) == [t |-> "str", v |-> x]
PyInt(n) == [t |-> "int", v |-> n]
(* a float, held as its shortest decimal text *)
PyFloat(x) == [t |-> "float", v |-> x]
PyDate(iso) == [t |-> "date", v |-> iso]
PyList(items) == [t |-> "list", v |-> items]
PyDict(pairs) == [t |-> "dict", v |-> pairs]
(* a pydantic model: HumblResponse and the response models it holds *)
PyModel(fields) == [t |-> "model", v |-> fields]
(* an ORJSONResponse with its rendered body *)
PyResponse(body) == [t |-> "response", v |-> body]

JsonNull == [j |-> "null", v |-> <<>>]
JsonString(x) == [j |-> "string", v |-> x]
JsonNumber(n) == [j |-> "number", v |-> n]
(* a number with a fraction *)
JsonReal(x) == [j |-> "real", v |-> x]
JsonArray(items) == [j |-> "array", v |-> items]
JsonObject(pairs) == [j |-> "object", v |-> pairs]

(* ORJsonCoder.decode: orjson.loads *)
RECURSIVE Decode(_)
Decode(doc) ==
    CASE doc.j = "null" -> PyNone
      [] doc.j = "string" -> PyStr(doc.v)
      [] doc.j = "number" -> PyInt(doc.v)
      [] doc.j = "real" -> PyFloat(doc.v)
      [] doc.j = "array" -> PyList([i \in 1..Len(doc.v) |-> Decode(doc.v[i])])
      [] doc.j = "object" ->
             PyDict([i \in 1..Len(doc.v) |-> <<doc.v[i][1], Decode(doc.v[i][2])>>])

(* an encode that stores the text of str(value) *)
EncodeAsText(value) == JsonString("str(value)")

(* ORJsonCoder.encode: orjson.dumps(value, default=jsonable_encoder).  A    *)
(* date is written as its ISO string; a model is written as the object of   *)
(* its fields; any other object, an ORJSONResponse among them, as the       *)
(* object of its attributes, with bytes as text.                            *)
RECURSIVE Encode(_)
Encode(value) ==
    CASE value.t = "none" -> JsonNull
      [] value.t = "str" -> JsonString(value.v)
      [] value.t = "int" -> JsonNumber(value.v)
      [] value.t = "float" -> JsonReal(value.v)
      [] value.t = "date" -> JsonString(value.v)
      [] value.t = "list" -> JsonArray([i \in 1..Len(value.v) |-> Encode(value.v[i])])
      [] value.t \in {"dict", "model"} ->
             JsonObject([i \in 1..Len(value.v) |->
                            <<value.v[i][1], Encode(value.v[i][2])>>])
      [] value.t = "response" ->
             JsonObject(<< <<"status_code", JsonNumber(200)>>,
                           <<"background", JsonNull>>,
                           <<"body", JsonString(value.v)>>,
                           <<"raw_headers",
                             JsonArray(<<JsonArray(<<JsonString("content-type"),
                                                     JsonString("application/json")>>)>>)>> >>)

(* main.py health_check *)
HealthBody ==
    PyDict(<< <<"data", PyDict(<< <<"message", PyStr("API is healthy")>> >>)>>,
              <<"status_code", PyInt(200)>> >>)

(* main.py redis_health_check, when the ping succeeds *)
PongBody ==
    PyDict(<< <<"data", PyDict(<< <<"message", PyStr("PONG")>> >>)>>,
              <<"status_code", PyInt(200)>> >>)

(* rows of the upstream toolkit: none, or one row with a date *)
RowSets == {<<>>,
            <<PyDict(<< <<"date", PyDate("2024-01-02")>>,
                        <<"symbol", PyStr("A")>> >>)>>}

(* HumblResponse(response_data=<model>(data=rows), message=..., status_code=200) *)
HumblResponse(rows, message) ==
    PyModel(<< <<"response_data", PyModel(<< <<"data", PyList(rows)>> >>)>>,
               <<"message", PyStr(message)>>,
               <<"warnings", PyNone>>,
               <<"extra", PyNone>>,
               <<"status_code", PyInt(200)>> >>)

(* the default of the symbols parameter of latest_price and last_close *)
DefaultSymbols ==
    <<"A","A","P","L", ",", "N","V","D","A", ",", "T","S","L","A">>

(* symbols.split(",") *)
RECURSIVE SplitFrom(_, _)
SplitFrom(s, acc) ==
    IF s = <<>> THEN <<acc>>
    ELSE IF Head(s) = "," THEN <<acc>> \o SplitFrom(Tail(s), <<>>)
    ELSE SplitFrom(Tail(s), Append(acc, Head(s)))

Split(s) == SplitFrom(s, <<>>)

(* the rows of lf.collect().to_dicts(): one per requested symbol, the       *)
(* symbol and the price under the column's name                             *)
PriceRows(symbolList, column) ==
    [i \in 1..Len(symbolList) |->
        PyDict(<< <<"symbol", PyStr(symbolList[i])>>,
                  <<column, PyFloat("189.5")>> >>)]

(* latest_price returns the rows themselves *)
LatestPriceReturns(symbols) == PyList(PriceRows(Split(symbols), "last_price"))

(* last_close returns HumblResponse(response_data=LastCloseResponse(data=   *)
(* rows), message=..., status_code=200)                                     *)
LastCloseReturns(symbols) ==
    HumblResponse(PriceRows(Split(symbols), "prev_close"),
                  "Last closing price data fetched successfully.")

(* what the route function returns when the upstream call succeeds *)
Returns(route) ==
    CASE route = "health" -> {HealthBody}
      [] route = "redis-health" -> {PongBody}
      [] route = "last-close" -> {LastCloseReturns(DefaultSymbols)}
      [] route = "mandelbrot-channel" -> {PyResponse("[{...}]")}
      [] route = "humblMOMENTUM" ->
             {HumblResponse(rows, "humblMOMENTUM data retrieved successfully") :
                  rows \in RowSets}
      [] route = "humblCOMPASS" ->
             {HumblResponse(rows, "humblCOMPASS data retrieved successfully") :
                  rows \in RowSets \ {<<>>}}

(* the status the route answers with when its upstream call fails; for      *)
(* last-close, when its symbols are empty                                   *)
FailureStatus(route) ==
    IF route = "redis-health" THEN 500 ELSE 400

(* the cache backend is the Redis backend or another one; the ping answers  *)
(* true, answers false or raises                                            *)
Backends == {"redis", "other"}
PingOutcomes == {"pong", "false", "raise"}

(* a redis_health_check that answers PONG without looking at the ping *)
RedisHealthCheckIgnoresPing(backend, ping) ==
    [status |-> 200, detail |-> ""]

(* main.py redis_health_check: the status and the detail of its answer.     *)
(* The 500 raised inside the try block is itself caught by the except       *)
(* clause and raised again with the longer detail.                          *)
RedisHealthCheck(backend, ping) ==
    IF backend = "redis" /\ ping = "pong"
        THEN [status |-> 200, detail |-> ""]
    ELSE IF backend = "redis" /\ ping = "raise"
        THEN [status |-> 500, detail |-> "Redis connection error: connection refused"]
    ELSE [status |-> 500,
          detail |-> "Redis connection error: 500: Redis connection failed"]

(* the detail of the HTTPException a failing route function raises *)
FailureDetail(route, backend, ping) ==
    CASE route = "redis-health" -> RedisHealthCheck(backend, ping).detail
      [] route = "last-close" -> "Symbols parameter cannot be empty"
      [] route = "mandelbrot-channel" ->
             "Error in mandelbrot_channel_route: upstream failure"
      [] route = "humblMOMENTUM" -> "Error in humbl_momentum_route: upstream failure"
      [] route = "humblCOMPASS" -> "Error in humbl_compass_route: upstream failure"
      [] OTHER -> ""

(* the steps of the cache decorator around a route function *)
HitSteps == <<"key", "lookup">>
MissSteps == <<"key", "lookup", "handler", "write">>
RaiseSteps == <<"key", "lookup", "handler">>

InitCache ==
    /\ store = EmptyStore
    /\ secret = NoSecret
    /\ pc = "idle"
    /\ req = NoReq
    /\ records = 0
    /\ cur = <<>>
    /\ stable = {}
    /\ resp = NoResp
    /\ calls = 0
    /\ ndel = 0
    /\ writes = 0
    /\ store0 = store
    /\ nflush = 0
    /\ nwrite = 0
    /\ kin = NoKeyInput
    /\ kout = <<>>
    /\ rin = NoRouteInput
    /\ rout = NoRouteOutput
    /\ first = NoFirst
    /\ cache = EmptyCache
    /\ now = 0
    /\ nadv = 0
    /\ cres = NoCacheResponse

(* the cache decorator finds the route's entry: the stored document is      *)
(* decoded and answered; the route function is not called                   *)
CacheHit ==
    \E route \in DOMAIN cache :
        /\ cres' = [route |-> route, source |-> "cache", status |-> 200,
                    body |-> Decode(cache[route].value),
                    orig |-> cache[route].orig,
                    age |-> now - cache[route].set_at,
                    steps |-> HitSteps, backend |-> "redis", ping |-> "pong",
                    detail |-> ""]
        /\ UNCHANGED <<cache, now, nadv>>
        /\ UNCHANGED <<flushVars, keyVars, routeVars, againVars>>

(* backend.set(key, coder.encode(value), expire) *)
StoreEntry(route, value) ==
    [r \in DOMAIN cache \cup {route} |->
        IF r = route
            THEN [value |-> Encode(value), orig |-> value, set_at |-> now,
                  expire_at |-> now + Expire(route)]
            ELSE cache[r]]

(* a cache decorator that stores an entry although the route function       *)
(* raised                                                                   *)
CacheMissStoresFailure ==
    \E route \in CachedRoutes \ DOMAIN cache, raises \in BOOLEAN,
       backend \in Backends, ping \in PingOutcomes :
        /\ route = "health" => ~raises
        /\ route = "redis-health" =>
               raises = (RedisHealthCheck(backend, ping).status # 200)
        /\ route # "redis-health" => (backend = "redis" /\ ping = "pong")
        /\ IF ~raises
              THEN \E value \in Returns(route) :
                     /\ cache' = StoreEntry(route, value)
                     /\ cres' = [route |-> route, source |-> "handler", status |-> 200,
                                 body |-> value, orig |-> value, age |-> 0,
                                 steps |-> MissSteps, backend |-> backend,
                                 ping |-> ping, detail |-> ""]
              ELSE /\ cache' = StoreEntry(route, PyNone)
                   /\ cres' = [route |-> route, source |-> "handler",
                               status |-> FailureStatus(route),
                               body |-> PyNone, orig |-> PyNone, age |-> 0,
                               steps |-> MissSteps, backend |-> backend,
                               ping |-> ping,
                               detail |-> FailureDetail(route, backend, ping)]
        /\ UNCHANGED <<now, nadv>>
        /\ UNCHANGED <<flushVars, keyVars, routeVars, againVars>>

(* the cache decorator finds no entry: the route function is called and its *)
(* return value is encoded and stored with the route's TTL; a route         *)
(* function that raises stores nothing                                      *)
CacheMiss ==
    \E route \in CachedRoutes \ DOMAIN cache, raises \in BOOLEAN,
       backend \in Backends, ping \in PingOutcomes :
        /\ route = "health" => ~raises
        /\ route = "redis-health" =>
               raises = (RedisHealthCheck(backend, ping).status # 200)
        /\ route # "redis-health" => (backend = "redis" /\ ping = "pong")
        /\ IF ~raises
              THEN \E value \in Returns(route) :
                     /\ cache' = StoreEntry(route, value)
                     /\ cres' = [route |-> route, source |-> "handler", status |-> 200,
                                 body |-> value, orig |-> value, age |-> 0,
                                 steps |-> MissSteps, backend |-> backend,
                                 ping |-> ping, detail |-> ""]
              ELSE /\ cache' = cache
                   /\ cres' = [route |-> route, source |-> "handler",
                               status |-> FailureStatus(route),
                               body |-> PyNone, orig |-> PyNone, age |-> 0,
                               steps |-> RaiseSteps, backend |-> backend,
                               ping |-> ping,
                               detail |-> FailureDetail(route, backend, ping)]
        /\ UNCHANGED <<now, nadv>>
        /\ UNCHANGED <<flushVars, keyVars, routeVars, againVars>>

(* time passes; the store drops the entries whose TTL has elapsed *)
Advance ==
    \E dt \in {Expire(r) : r \in CachedRoutes} :
        /\ nadv < MaxAdvance
        /\ nadv' = nadv + 1
        /\ now' = now + dt
        /\ cache' = [r \in {q \in DOMAIN cache : cache[q].expire_at > now'} |-> cache[r]]
        /\ UNCHANGED cres
        /\ UNCHANGED <<flushVars, keyVars, routeVars, againVars>>

NextCache ==
    \/ CacheHit
    \/ CacheMiss
    \/ Advance

SpecCache == InitCache /\ [][NextCache]_vars

(***************************************************************************)
(* request_key_builder.  A query string is the sequence of its             *)
(* (name, value) pairs in the order of the URL.                            *)
(***************************************************************************)
MaxParams == 2

ParamNames == {<<"a">>, <<"b">>}
ParamValues == {<<"1">>, <<"'">>}
(* a namespace and a path may hold the delimiter themselves *)
Namespaces == {NsStr, PrefixStr \o Colon \o <<"h">>,
               NsStr \o <<":","g","e","t",":","/","p">>}
Methods == {<<"G","E","T">>, <<"G","e","t">>}
Paths == {<<"/","p">>, <<"/","p",":","g","e","t",":","/","p">>}

Pairs == ParamNames \X ParamValues
Queries == UNION {[1..n -> Pairs] : n \in 0..MaxParams}

(* code points of the characters of the model's strings *)
CodePoint(c) ==
    CASE c = " " -> 32 [] c = "\"" -> 34 [] c = "'" -> 39 [] c = "(" -> 40
      [] c = ")" -> 41 [] c = "*" -> 42 [] c = "," -> 44 [] c = "-" -> 45
      [] c = "/" -> 47 [] c = "1" -> 49 [] c = ":" -> 58
      [] c = "E" -> 69 [] c = "G" -> 71 [] c = "T" -> 84
      [] c = "[" -> 91 [] c = "\\" -> 92 [] c = "]" -> 93
      [] c = "a" -> 97 [] c = "b" -> 98 [] c = "c" -> 99 [] c = "e" -> 101
      [] c = "f" -> 102 [] c = "g" -> 103 [] c = "h" -> 104 [] c = "i" -> 105
      [] c = "n" -> 110 [] c = "o" -> 111 [] c = "p" -> 112 [] c = "r" -> 114
      [] c = "s" -> 115 [] c = "t" -> 116 [] c = "x" -> 120

(* str.lower() on one character *)
LowerChar(c) ==
    CASE c = "E" -> "e" [] c = "G" -> "g" [] c = "T" -> "t" [] OTHER -> c

(* a key builder that keeps the method as the request gives it *)
LowerOmitted(s) == s

Lower(s) == [i \in 1..Len(s) |-> LowerChar(s[i])]

(* s < t for Python strings: lexicographic by code point *)
RECURSIVE StrLess(_, _)
StrLess(s, t) ==
    IF t = <<>> THEN FALSE
    ELSE IF s = <<>> THEN TRUE
    ELSE IF Head(s) = Head(t) THEN StrLess(Tail(s), Tail(t))
    ELSE CodePoint(Head(s)) < CodePoint(Head(t))

(* p < q for Python tuples (name, value) *)
PairLess(p, q) ==
    \/ StrLess(p[1], q[1])
    \/ (p[1] = q[1] /\ StrLess(p[2], q[2]))

RECURSIVE InsertSorted(_, _)
InsertSorted(sorted, p) ==
    IF sorted = <<>> THEN <<p>>
    ELSE IF PairLess(p, Head(sorted)) THEN <<p>> \o sorted
    ELSE <<Head(sorted)>> \o InsertSorted(Tail(sorted), p)

(* a key builder that leaves the pairs in the order of the URL *)
SortedOmitted(q) == q

(* sorted(...) on a list of pairs: stable, ascending *)
RECURSIVE Sorted(_)
Sorted(q) ==
    IF q = <<>> THEN <<>>
    ELSE InsertSorted(Sorted(SubSeq(q, 1, Len(q) - 1)), q[Len(q)])

(* the value query_params[name] holds: the last one given for the name *)
LastValue(q, name) ==
    LET idx == {i \in 1..Len(q) : q[i][1] = name}
        last == CHOOSE i \in idx : \A j \in idx : j <= i
    IN  q[last][2]

(* request.query_params.items(): the items view of the dict built from the *)
(* pairs, one item per name, in the order the names first occur, each with *)
(* the last value given for it                                             *)
RECURSIVE ItemsFrom(_, _)
ItemsFrom(q, i) ==
    IF i > Len(q) THEN <<>>
    ELSE IF \E j \in 1..(i - 1) : q[j][1] = q[i][1] THEN ItemsFrom(q, i + 1)
    ELSE <<<<q[i][1], LastValue(q, q[i][1])>>>> \o ItemsFrom(q, i + 1)

Items(q) == ItemsFrom(q, 1)

(* repr() of a str *)
RECURSIVE Escaped(_, _)
Escaped(s, quote) ==
    IF s = <<>> THEN <<>>
    ELSE (IF Head(s) = quote \/ Head(s) = "\\" THEN <<"\\", Head(s)>> ELSE <<Head(s)>>)
         \o Escaped(Tail(s), quote)

HasChar(s, c) == \E i \in 1..Len(s) : s[i] = c

ReprStr(s) ==
    LET quote == IF HasChar(s, "'") /\ ~HasChar(s, "\"") THEN "\"" ELSE "'"
    IN  <<quote>> \o Escaped(s, quote) \o <<quote>>

(* repr() of a tuple (name, value) *)
ReprPair(p) == <<"(">> \o ReprStr(p[1]) \o <<",", " ">> \o ReprStr(p[2]) \o <<")">>

RECURSIVE ReprItems(_)
ReprItems(l) ==
    IF l = <<>> THEN <<>>
    ELSE IF Len(l) = 1 THEN ReprPair(l[1])
    ELSE ReprPair(l[1]) \o <<",", " ">> \o ReprItems(Tail(l))

(* repr() of a list of tuples *)
ReprList(l) == <<"[">> \o ReprItems(l) \o <<"]">>

(* ":".join(parts) *)
RECURSIVE Join(_)
Join(parts) ==
    IF parts = <<>> THEN <<>>
    ELSE IF Len(parts) = 1 THEN parts[1]
    ELSE parts[1] \o Colon \o Join(Tail(parts))

(* a key builder that leaves the query parameters out of the key *)
KeyWithoutQuery(namespace, method, path, q) ==
    Join(<<namespace, Lower(method), path>>)

RequestKeyBuilder(namespace, method, path, q) ==
    Join(<<namespace, Lower(method), path, ReprList(Sorted(Items(q)))>>)

InitKey ==
    /\ store = EmptyStore
    /\ secret = NoSecret
    /\ pc = "idle"
    /\ req = NoReq
    /\ records = 0
    /\ cur = <<>>
    /\ stable = {}
    /\ resp = NoResp
    /\ calls = 0
    /\ ndel = 0
    /\ writes = 0
    /\ store0 = store
    /\ nflush = 0
    /\ nwrite = 0
    /\ kin \in [namespace : Namespaces, method : Methods, path : Paths,
                q1 : Queries, q2 : Queries]
    /\ kout = <<>>
    /\ rin = NoRouteInput
    /\ rout = NoRouteOutput
    /\ first = NoFirst
    /\ cache = EmptyCache
    /\ now = 0
    /\ nadv = 0
    /\ cres = NoCacheResponse

(* request_key_builder is called for the two requests *)
BuildKeys ==
    /\ kout = <<>>
    /\ kout' = <<RequestKeyBuilder(kin.namespace, kin.method, kin.path, kin.q1),
                 RequestKeyBuilder(kin.namespace, kin.method, kin.path, kin.q2)>>
    /\ UNCHANGED <<flushVars, kin, routeVars, againVars, cacheVars>>

NextKey == BuildKeys

SpecKey == InitKey /\ [][NextKey]_vars

(***************************************************************************)
(* The data routes.  The upstream toolkit (humbldata) is opaque: a call    *)
(* to it returns rows ("ok") or raises ("raise"), whatever the symbols.    *)
(***************************************************************************)
SymbolInputs == {<<>>, <<"A">>, <<"A", ",", "B">>, DefaultSymbols}
UpstreamOutcomes == {"ok", "raise"}

(* the route function returned after its upstream call; body is the JSON    *)
(* document of the answer where the route's return value is modelled        *)
Ok(extra, log) ==
    [kind |-> "ok", status |-> 200, detail |-> "", extra |-> extra, log |-> log,
     body |-> JsonNull, upstream_called |-> TRUE]

(* an HTTPException leaves the route function: FastAPI answers with its     *)
(* status and {"detail": detail}                                            *)
HttpError(status, detail, log) ==
    [kind |-> "http_error", status |-> status, detail |-> detail,
     extra |-> "null", log |-> log, body |-> JsonNull, upstream_called |-> FALSE]

(* the exception was raised by the upstream call or after it *)
AfterUpstream(out) == [out EXCEPT !.upstream_called = TRUE]

(* any other exception leaves the route function: the server answers 500    *)
Escapes ==
    [kind |-> "uncaught", status |-> 500, detail |-> "Internal Server Error",
     extra |-> "null", log |-> "", body |-> JsonNull, upstream_called |-> TRUE]

(* the request fails FastAPI's validation of an enumerated parameter; the   *)
(* route function is not called                                             *)
Unprocessable ==
    [kind |-> "validation", status |-> 422, detail |-> "Input should be one of",
     extra |-> "null", log |-> "", body |-> JsonNull, upstream_called |-> FALSE]

(* validate_symbols: raises ValueError on an empty list *)
ValidateSymbolsRaises(symbolList) == symbolList = <<>>

(* openbb.py latest_price and last_close *)
OpenbbHandler(symbols, upstream) ==
    IF symbols = <<>> THEN HttpError(400, "Symbols parameter cannot be empty", "")
    ELSE IF upstream = "raise" THEN Escapes
    ELSE Ok("null", "")

(* the answer to a route function that returned value: the JSON document    *)
(* FastAPI renders from it                                                  *)
Rendered(out, value) ==
    IF out.kind = "ok" THEN [out EXCEPT !.body = Encode(value)] ELSE out

(* portfolio.py portfolio_route *)
PortfolioHandler(symbols, upstream) ==
    IF symbols = <<>>
        THEN HttpError(500,
                 "Internal server error: 400: Symbols parameter cannot be empty",
                 "exception")
    ELSE IF upstream = "raise"
        THEN AfterUpstream(HttpError(500, "Internal server error: upstream failure",
                                     "exception"))
    ELSE IF upstream = "invalid_rows"
        THEN AfterUpstream(HttpError(422, "Validation error: invalid rows",
                                     "exception"))
    ELSE Ok("null", "")

(* toolbox.py mandelbrot_channel_route *)
MandelbrotHandler(symbols, upstream) ==
    IF ValidateSymbolsRaises(Split(symbols))
        THEN HttpError(400, "Error in mandelbrot_channel_route: No symbols provided",
                       "exception")
    ELSE IF upstream = "raise"
        THEN AfterUpstream(HttpError(400,
                 "Error in mandelbrot_channel_route: upstream failure", "exception"))
    ELSE Ok("null", "")

(* mandelbrot_channel.py mandelbrot_channel_route and user_table.py         *)
(* user_table_route                                                         *)
UnguardedHandler(symbols, upstream) ==
    IF upstream = "raise" THEN Escapes ELSE Ok("null", "")

(* The extraction of the equity data: extra_data starts as None, is         *)
(* assigned the selected frame, then the frame's rows.  It raises in        *)
(* to_polars/select ("raise": extra_data is still None), or in to_dicts     *)
(* ("raise_to_dicts": extra_data holds the frame), or not at all.           *)
ExtractOutcomes == {"ok", "raise", "raise_to_dicts"}

ExtraData(extract) ==
    CASE extract = "ok" -> "rows"
      [] extract = "raise" -> "null"
      [] extract = "raise_to_dicts" -> "frame"

(* logger.warning in the except clause around the extraction *)
ExtraLog(extract) == IF extract = "ok" THEN "" ELSE "warning"

(* toolbox/humbl_channel.py humbl_channel_route *)
HumblChannelHandler(symbols, upstream, chart, equity_data, extract) ==
    IF ValidateSymbolsRaises(Split(symbols))
        THEN HttpError(400, "Error in humbl_channel_route: No symbols provided",
                       "exception")
    ELSE IF upstream = "raise"
        THEN AfterUpstream(HttpError(400,
                 "Error in humbl_channel_route: upstream failure", "exception"))
    ELSE IF chart
        THEN IF equity_data
                THEN Ok(ExtraData(extract), ExtraLog(extract))
                ELSE AfterUpstream(HttpError(400,
                         "Error in humbl_channel_route: cannot access local variable 'extra_data'",
                         "exception"))
    ELSE IF equity_data
        THEN Ok(ExtraData(extract), ExtraLog(extract))
    ELSE Ok("null", "")

(* the toolbox routes that wrap one upstream call in try/except:            *)
(* humbl_momentum_route, humbl_compass_route, humbl_compass_backtest_route  *)
ToolboxHandler(name, upstream) ==
    IF upstream = "raise"
        THEN AfterUpstream(HttpError(400,
                 CASE name = "humblMOMENTUM" ->
                          "Error in humbl_momentum_route: upstream failure"
                   [] name = "humblCOMPASS/backtest" ->
                          "Error in humbl_compass_backtest_route: upstream failure"
                   [] OTHER -> "Error in humbl_compass_route: upstream failure",
                 "exception"))
    ELSE Ok("null", "")

RouteInput(route, symbols, valid, upstream, chart, equity_data, extract) ==
    [route |-> route, symbols |-> symbols, valid |-> valid, upstream |-> upstream,
     chart |-> chart, equity_data |-> equity_data, extract |-> extract]

InitRoute ==
    /\ store = EmptyStore
    /\ secret = NoSecret
    /\ pc = "idle"
    /\ req = NoReq
    /\ records = 0
    /\ cur = <<>>
    /\ stable = {}
    /\ resp = NoResp
    /\ calls = 0
    /\ ndel = 0
    /\ writes = 0
    /\ store0 = store
    /\ nflush = 0
    /\ nwrite = 0
    /\ kin = NoKeyInput
    /\ kout = <<>>
    /\ rin = NoRouteInput
    /\ rout = NoRouteOutput
    /\ first = NoFirst
    /\ cache = EmptyCache
    /\ now = 0
    /\ nadv = 0
    /\ cres = NoCacheResponse

(* latest_price called whatever the provider parameter holds *)
LatestPriceUnvalidated ==
    \E symbols \in SymbolInputs, valid \in BOOLEAN, upstream \in UpstreamOutcomes :
        /\ rin' = RouteInput("latest-price", symbols, valid, upstream, FALSE, FALSE, "ok")
        /\ rout' = Rendered(OpenbbHandler(symbols, upstream), LatestPriceReturns(symbols))
        /\ UNCHANGED <<flushVars, keyVars, againVars, cacheVars>>

(* GET /api/v1/latest-price *)
LatestPrice ==
    \E symbols \in SymbolInputs, valid \in BOOLEAN, upstream \in UpstreamOutcomes :
        /\ rin' = RouteInput("latest-price", symbols, valid, upstream, FALSE, FALSE, "ok")
        /\ rout' = IF valid
                      THEN Rendered(OpenbbHandler(symbols, upstream),
                                    LatestPriceReturns(symbols))
                      ELSE Unprocessable
        /\ UNCHANGED <<flushVars, keyVars, againVars, cacheVars>>

(* GET /api/v1/last-close *)
LastClose ==
    \E symbols \in SymbolInputs, valid \in BOOLEAN, upstream \in UpstreamOutcomes :
        /\ rin' = RouteInput("last-close", symbols, valid, upstream, FALSE, FALSE, "ok")
        /\ rout' = IF valid
                      THEN Rendered(OpenbbHandler(symbols, upstream),
                                    LastCloseReturns(symbols))
                      ELSE Unprocessable
        /\ UNCHANGED <<flushVars, keyVars, againVars, cacheVars>>

(* GET /watchlist_table *)
PortfolioRoute ==
    \E symbols \in SymbolInputs, valid \in BOOLEAN,
       upstream \in UpstreamOutcomes \cup {"invalid_rows"} :
        /\ rin' = RouteInput("watchlist_table", symbols, valid, upstream, FALSE, FALSE, "ok")
        /\ rout' = IF valid THEN PortfolioHandler(symbols, upstream) ELSE Unprocessable
        /\ UNCHANGED <<flushVars, keyVars, againVars, cacheVars>>

(* GET /api/v1/mandelbrot-channel of toolbox.py *)
MandelbrotChannelRoute ==
    \E symbols \in SymbolInputs, valid \in BOOLEAN, upstream \in UpstreamOutcomes,
       chart \in BOOLEAN :
        /\ rin' = RouteInput("mandelbrot-channel", symbols, valid, upstream, chart,
                             FALSE, "ok")
        /\ rout' = IF valid THEN MandelbrotHandler(symbols, upstream) ELSE Unprocessable
        /\ UNCHANGED <<flushVars, keyVars, againVars, cacheVars>>

(* GET /api/v1/mandelbrot-channel of mandelbrot_channel.py *)
MandelbrotChannelPlainRoute ==
    \E symbols \in SymbolInputs, upstream \in UpstreamOutcomes :
        /\ rin' = RouteInput("mandelbrot-channel-plain", symbols, TRUE, upstream, FALSE,
                             FALSE, "ok")
        /\ rout' = UnguardedHandler(symbols, upstream)
        /\ UNCHANGED <<flushVars, keyVars, againVars, cacheVars>>

(* GET /api/v1/user-table *)
UserTableRoute ==
    \E symbols \in SymbolInputs, upstream \in UpstreamOutcomes :
        /\ rin' = RouteInput("user-table", symbols, TRUE, upstream, FALSE, FALSE, "ok")
        /\ rout' = UnguardedHandler(symbols, upstream)
        /\ UNCHANGED <<flushVars, keyVars, againVars, cacheVars>>

(* GET /humblCHANNEL *)
HumblChannelRoute ==
    \E symbols \in SymbolInputs, valid \in BOOLEAN, upstream \in UpstreamOutcomes,
       chart \in BOOLEAN, equity_data \in BOOLEAN, extract \in ExtractOutcomes :
        /\ rin' = RouteInput("humblCHANNEL", symbols, valid, upstream, chart,
                             equity_data, extract)
        /\ rout' = IF valid
                      THEN HumblChannelHandler(symbols, upstream, chart, equity_data,
                                               extract)
                      ELSE Unprocessable
        /\ UNCHANGED <<flushVars, keyVars, againVars, cacheVars>>

(* GET /humblMOMENTUM *)
HumblMomentumRoute ==
    \E symbols \in SymbolInputs, valid \in BOOLEAN, upstream \in UpstreamOutcomes,
       chart \in BOOLEAN :
        /\ rin' = RouteInput("humblMOMENTUM", symbols, valid, upstream, chart, FALSE, "ok")
        /\ rout' = IF valid THEN ToolboxHandler("humblMOMENTUM", upstream)
                   ELSE Unprocessable
        /\ UNCHANGED <<flushVars, keyVars, againVars, cacheVars>>

(* GET /humblCOMPASS, and /api/v1/humbl-compass of humbl_compass.py *)
HumblCompassRoute ==
    \E route \in {"humblCOMPASS", "humbl-compass"}, valid \in BOOLEAN,
       upstream \in UpstreamOutcomes, chart \in BOOLEAN :
        /\ rin' = RouteInput(route, <<>>, valid, upstream, chart, FALSE, "ok")
        /\ rout' = IF valid THEN ToolboxHandler(route, upstream) ELSE Unprocessable
        /\ UNCHANGED <<flushVars, keyVars, againVars, cacheVars>>

(* GET /humblCOMPASS/backtest *)
HumblCompassBacktestRoute ==
    \E symbols \in SymbolInputs, valid \in BOOLEAN, upstream \in UpstreamOutcomes,
       chart \in BOOLEAN :
        /\ rin' = RouteInput("humblCOMPASS/backtest", symbols, valid, upstream, chart,
                             FALSE, "ok")
        /\ rout' = IF valid THEN ToolboxHandler("humblCOMPASS/backtest", upstream)
                   ELSE Unprocessable
        /\ UNCHANGED <<flushVars, keyVars, againVars, cacheVars>>

NextRoute ==
    \/ LatestPrice
    \/ LastClose
    \/ PortfolioRoute
    \/ MandelbrotChannelRoute
    \/ MandelbrotChannelPlainRoute
    \/ UserTableRoute
    \/ HumblChannelRoute
    \/ HumblMomentumRoute
    \/ HumblCompassRoute
    \/ HumblCompassBacktestRoute

SpecRoute == InitRoute /\ [][NextRoute]_vars

(***************************************************************************)
(* Properties of the data routes.                                          *)
(***************************************************************************)
SymbolRoutes == {"latest-price", "last-close", "watchlist_table", "mandelbrot-channel",
                 "mandelbrot-channel-plain", "humblCHANNEL", "humblMOMENTUM",
                 "humblCOMPASS/backtest", "user-table"}

SaysSymbolsEmpty(detail) ==
    detail \in {"Symbols parameter cannot be empty",
                "Internal server error: 400: Symbols parameter cannot be empty"}

C10_NoExceptionEscapes ==
    rin.route # "none" => rout.kind \in {"ok", "http_error", "validation"}

ProviderRoutes == {"watchlist_table", "mandelbrot-channel", "humblCHANNEL",
                   "humblMOMENTUM", "humblCOMPASS", "humblCOMPASS/backtest"}

(* the upstream call was reached and raised *)
UpstreamFailed ==
    /\ rin.valid
    /\ rin.upstream = "raise"
    /\ (rin.route = "watchlist_table" => rin.symbols # <<>>)

(* the detail ends with the message of the exception the upstream raised *)
CarriesCause(detail) ==
    detail \in {"Internal server error: upstream failure",
                "Error in mandelbrot_channel_route: upstream failure",
                "Error in humbl_channel_route: upstream failure",
                "Error in humbl_momentum_route: upstream failure",
                "Error in humbl_compass_route: upstream failure",
                "Error in humbl_compass_backtest_route: upstream failure"}

(* C11: a failure of the upstream provider during a request to the          *)
(* portfolio route or to a toolbox route is reported to the caller with a   *)
(* 5xx status and a detail that includes the exception's message.           *)
C11_FailureIsServerError ==
    (rin.route \in ProviderRoutes /\ UpstreamFailed) =>
        /\ rout.status >= 500
        /\ rout.status < 600
        /\ CarriesCause(rout.detail)

ExtractionFailed ==
    /\ rin.route = "humblCHANNEL"
    /\ rin.valid
    /\ rin.upstream = "ok"
    /\ rin.equity_data
    /\ rin.extract # "ok"

(* C14: when the extraction of the optional equity data fails in            *)
(* humbl_channel_route, with or without chart, the request is answered 200  *)
(* with its main payload, a warning is logged and the extra field of the    *)
(* response is null.                                                        *)
C14_ExtractionFailureDegrades ==
    ExtractionFailed =>
        /\ rout.kind = "ok"
        /\ rout.status = 200
        /\ rout.log = "warning"
        /\ rout.extra = "null"

(* the JSON object has a member of this name *)
HasMember(doc, name) ==
    /\ doc.j = "object"
    /\ \E i \in 1..Len(doc.v) : doc.v[i][1] = name

(* C21: GET /last-close with default parameters is answered with status    *)
(* 200 and a non-empty JSON list whose items are objects that each have a   *)
(* 'symbol' and a 'prev_close' field.                                       *)
C21_LastCloseAnswersList ==
    (rin.route = "last-close" /\ rin.valid /\ rin.symbols = DefaultSymbols
        /\ rin.upstream = "ok") =>
        /\ rout.status = 200
        /\ rout.body.j = "array"
        /\ Len(rout.body.v) > 0
        /\ \A i \in 1..Len(rout.body.v) :
               /\ HasMember(rout.body.v[i], "symbol")
               /\ HasMember(rout.body.v[i], "prev_close")

(* C22: a request to latest-price whose provider is outside the enumerated  *)
(* set is answered 422 before the route function runs: the upstream         *)
(* provider is not called for it.                                           *)
C22_InvalidProviderRejected ==
    (rin.route = "latest-price" /\ ~rin.valid) =>
        /\ rout.kind = "validation"
        /\ rout.status = 422
        /\ ~rout.upstream_called

(* a rejected latest-price request whose upstream call would have failed *)
C22_Witness ==
    /\ rin.route = "latest-price"
    /\ ~rin.valid
    /\ rin.symbols = DefaultSymbols
    /\ rin.upstream = "raise"
    /\ rout.status = 422

(* C26: humbl_channel_route with chart=true answers 200 whenever the        *)
(* upstream call succeeds, for both values of equity_data, and the extra    *)
(* value of the response is null when equity_data=false.                    *)
C26_ChartAnswersForBothEquityData ==
    (rin.route = "humblCHANNEL" /\ rin.valid /\ rin.symbols # <<>>
        /\ rin.upstream = "ok" /\ rin.chart) =>
        /\ rout.kind = "ok"
        /\ rout.status = 200
        /\ (~rin.equity_data => rout.extra = "null")

(***************************************************************************)
(* Properties of request_key_builder.                                      *)
(***************************************************************************)
Occurrences(q, p) == Cardinality({i \in 1..Len(q) : q[i] = p})

(* the two query strings hold the same pairs, in any order *)
SamePairs(q1, q2) == \A p \in Pairs : Occurrences(q1, p) = Occurrences(q2, p)

NamesOf(q) == {q[i][1] : i \in 1..Len(q)}

KeysBuilt == kout # <<>>

(* C1, as stated: two requests with the same namespace, method and path    *)
(* whose query strings hold the same (name, value) pairs in different      *)
(* orders get the same key.                                                *)
C1_OrderInvariant ==
    (KeysBuilt /\ SamePairs(kin.q1, kin.q2)) => kout[1] = kout[2]

(* C1, amended: two requests with the same namespace, method and path      *)
(* whose query strings hold the same (name, value) pairs in different      *)
(* orders get the same key when every name has the same last value in both *)
(* orders, which is so whenever no name is repeated.                       *)
C1_OrderInvariantLastValue ==
    (/\ KeysBuilt
     /\ SamePairs(kin.q1, kin.q2)
     /\ \A n \in NamesOf(kin.q1) : LastValue(kin.q1, n) = LastValue(kin.q2, n))
        => kout[1] = kout[2]

C1_Witness ==
    /\ KeysBuilt
    /\ kin.q1 = <<<< <<"b">>, <<"1">> >>, << <<"a">>, <<"'">> >>>>
    /\ kin.q2 = <<<< <<"a">>, <<"'">> >>, << <<"b">>, <<"1">> >>>>
    /\ kout[1] = kout[2]

(* C2, as stated: two requests with the same namespace, method and path    *)
(* whose query strings differ in the value of at least one parameter get   *)
(* different keys.                                                         *)
C2_ValuesSeparate ==
    (/\ KeysBuilt
     /\ Len(kin.q1) = Len(kin.q2)
     /\ \A i \in 1..Len(kin.q1) : kin.q1[i][1] = kin.q2[i][1]
     /\ \E i \in 1..Len(kin.q1) : kin.q1[i][2] # kin.q2[i][2])
        => kout[1] # kout[2]

(* C2, amended: two requests with the same namespace, method and path      *)
(* whose query strings give the same names and differ in the last value of *)
(* at least one name get different keys.                                   *)
C2_LastValuesSeparate ==
    (/\ KeysBuilt
     /\ NamesOf(kin.q1) = NamesOf(kin.q2)
     /\ \E n \in NamesOf(kin.q1) : LastValue(kin.q1, n) # LastValue(kin.q2, n))
        => kout[1] # kout[2]

C2_Witness ==
    /\ KeysBuilt
    /\ kin.q1 = <<<< <<"a">>, <<"1">> >>, << <<"b">>, <<"1">> >>>>
    /\ kin.q2 = <<<< <<"b">>, <<"'">> >>, << <<"a">>, <<"1">> >>>>
    /\ kout[1] # kout[2]

(* the pairs of q in ascending order of name, then of value *)
AllPairsSorted(q) ==
    CHOOSE l \in [1..Len(q) -> Pairs] :
        /\ SamePairs(l, q)
        /\ \A i, j \in 1..Len(q) : i < j => ~PairLess(l[j], l[i])

(* one pair per name of q, holding the last value given for the name, in    *)
(* ascending order of name                                                  *)
LastPairsSorted(q) ==
    LET last == {<<n, LastValue(q, n)>> : n \in NamesOf(q)}
    IN  CHOOSE l \in [1..Cardinality(last) -> last] :
            \A i, j \in 1..Cardinality(last) : i < j => PairLess(l[i], l[j])

SameUpToCase(m1, m2) ==
    /\ Len(m1) = Len(m2)
    /\ \A i \in 1..Len(m1) : LowerChar(m1[i]) = LowerChar(m2[i])

KeyOf(namespace, method, path, pairs) ==
    namespace \o <<":">> \o [i \in 1..Len(method) |-> LowerChar(method[i])]
        \o <<":">> \o path \o <<":">> \o ReprList(pairs)

C29_NamespacesNeverShareKey ==
    kout # <<>> =>
        \A namespace \in Namespaces \ {kin.namespace}, path \in Paths :
            RequestKeyBuilder(namespace, kin.method, path, kin.q1) # kout[1]

(***************************************************************************)
(* Properties of the flush operations.                                     *)
(***************************************************************************)
PatternPrefix(pattern) == SubSeq(pattern, 1, Len(pattern) - 1)

PatternFlushReturned == pc = "done" /\ req.cacheOnly /\ resp.has_count

(* C3: with no write of another request since the call, once                *)
(* redis_delete_pattern(redis, 'ns:*') has returned the store holds no key  *)
(* that starts with 'ns:' and holds every key that did not start with 'ns:' *)
(* with the value it had.                                                   *)
C3_PatternFlushDeletesAllAndOnly ==
    (PatternFlushReturned /\ writes = 0) =>
        /\ \A k \in DOMAIN store : ~StartsWith(k, PatternPrefix(req.pattern))
        /\ \A k \in DOMAIN store0 :
              ~StartsWith(k, PatternPrefix(req.pattern)) =>
                  (k \in DOMAIN store /\ store[k] = store0[k])

C3_Witness ==
    /\ PatternFlushReturned
    /\ writes = 0
    /\ req.pattern = NsStr \o Colon \o Star
    /\ {KeyN, KeyM, KeyA} \subseteq DOMAIN store0
    /\ ndel = 1

C5_CountAccurateUnderWrites ==
    (pc = "done" /\ resp.has_count) => resp.records_deleted = ndel

(* C6: a flush request whose token is not the server's secret is answered   *)
(* 403 before any store call, on both endpoints and in both modes: it       *)
(* counts, scans, deletes and flushes nothing and leaves the store as it    *)
(* was.                                                                     *)
C6_WrongTokenForbidden ==
    (req.endpoint \in {"main", "core"}
        /\ (secret.tag = "none" \/ secret.val # req.token)) =>
            /\ pc = "done"
            /\ resp = Forbidden
            /\ calls = 0
            /\ ndel = 0
            /\ (writes = 0 => store = store0)

C6_Witness ==
    /\ pc = "done"
    /\ resp.status = 403
    /\ req.endpoint = "core"
    /\ req.cacheOnly
    /\ secret.tag = "str"
    /\ KeyA \in DOMAIN store

(* C7: a flush with the correct token and fastapi_cache_only = false        *)
(* empties the store and reports as records_deleted the size the store had  *)
(* immediately before it was flushed.                                       *)
C7_FullFlushReportsPriorSize ==
    (pc = "done" /\ req.endpoint = "core" /\ ~req.cacheOnly /\ resp.status = 200) =>
        /\ writes = 0 => store = EmptyStore
        /\ resp.has_count
        /\ resp.records_deleted = ndel

(* C8: every successful flush response, from main.py's and from the core    *)
(* router's flush_redis and in both modes, carries the count of deleted     *)
(* records and a success message.                                           *)
C8_SuccessCarriesCount ==
    (pc = "done" /\ req.endpoint \in {"main", "core"} /\ resp.status = 200) =>
        (resp.has_count /\ resp.message # "")

TokenMismatch ==
    /\ req.endpoint \in {"main", "core"}
    /\ pc = "done"
    /\ (secret.tag = "none" \/ secret.val # req.token)

(* C12: the response to a flush request whose token is not the secret is    *)
(* the same 403 whatever the secret and whatever the token, and none of its *)
(* fields is the secret or the supplied token.                              *)
C12_ForbiddenIndependentOfSecret ==
    TokenMismatch =>
        /\ resp.status = 403
        /\ resp.message = "Invalid API token"
        /\ ~resp.has_count
        /\ resp.message \notin {secret.val, req.token}

C12_Witness ==
    /\ TokenMismatch
    /\ req.endpoint = "main"
    /\ secret.tag = "str"
    /\ req.token = "wrong"
    /\ resp.status = 403

PatternFlushInterrupted ==
    /\ pc \in {"failed", "cancelled"}
    /\ req.cacheOnly
    /\ ndel > 0

(* C13: when a pattern flush fails or is cancelled part-way through, the    *)
(* keys it deleted stay deleted and the count it reports is the number of   *)
(* deletions it completed.                                                  *)
C13_InterruptedFlushReportsCompleted ==
    PatternFlushInterrupted =>
        /\ writes = 0 => Dbsize(store) = Dbsize(store0) - ndel
        /\ resp.has_count
        /\ resp.records_deleted = ndel

(* the namespace whose pattern the request flushes *)
FlushedNamespace == CHOOSE ns \in RouteNamespaces : NamespacePattern(ns) = req.pattern

NamespaceFlushRunning == req.endpoint = "namespace" /\ pc # "idle"

(* C16: a pattern flush on the key prefix of namespace A,                   *)
(* 'fastapi-cache:A:*', deletes no entry cached under another namespace B,  *)
(* also when A's name is a leading part of B's (humblCOMPASS and            *)
(* humblCOMPASS_backtest): every entry of B the store held when the flush   *)
(* began is still there, and unchanged unless another request rewrote it.   *)
C16_OtherNamespacesKept ==
    NamespaceFlushRunning =>
        \A ns \in RouteNamespaces \ {FlushedNamespace} : \A d \in Digests :
            CacheKey(ns, d) \in DOMAIN store0 =>
                /\ CacheKey(ns, d) \in DOMAIN store
                /\ writes = 0 => store[CacheKey(ns, d)] = store0[CacheKey(ns, d)]

C16_Witness ==
    /\ NamespaceFlushRunning
    /\ pc = "done"
    /\ req.pattern = NamespacePattern(HumblCompassNs)
    /\ DOMAIN store0 = {CacheKey(HumblCompassNs, <<"0","a">>),
                        CacheKey(HumblCompassBacktestNs, <<"0","a">>)}
    /\ DOMAIN store = {CacheKey(HumblCompassBacktestNs, <<"0","a">>)}
    /\ resp.records_deleted = 1

SecondRunReturned == first.done /\ pc = "done"

PatternFlushBetweenCalls ==
    /\ req.cacheOnly
    /\ pc \in {"scan0", "scan", "delete", "dbsize2"}

(* the write of another request can be the next step *)
WritesRunBetweenCalls ==
    (PatternFlushBetweenCalls /\ nwrite < MaxWrite) => ENABLED Write

(* a step of a pattern flush is at most one store call and removes at most  *)
(* one key                                                                  *)
OneKeyPerStoreCall ==
    (req.cacheOnly /\ pc # "idle") =>
        /\ calls' <= calls + 1
        /\ Cardinality(DOMAIN store \ DOMAIN store') <= 1

(* C24: pattern flush enumerates and deletes keys in bounded steps rather   *)
(* than in one atomic operation: no store call of it handles the whole key  *)
(* set, it holds no lock across its store calls, and between any two of     *)
(* its store calls the set operations of other requests can run.            *)
C24_PatternFlushInSteps ==
    []WritesRunBetweenCalls /\ [][OneKeyPerStoreCall]_vars

(* another request wrote after the flush's first deletion and the flush is  *)
(* about to delete a second key                                             *)
C24_Witness ==
    /\ req.cacheOnly
    /\ pc = "delete"
    /\ ndel = 1
    /\ writes = 1
    /\ cur \in DOMAIN store

(* C27: the records_deleted value returned by either flush mode is never    *)
(* negative, under any interleaving of the flush's store calls with writes  *)
(* by other requests.                                                       *)
C27_RecordsDeletedNonNegative ==
    resp.has_count => resp.records_deleted >= 0

(* C28: when no flush secret is configured, no token value, the empty       *)
(* string included, authorizes a flush: every flush request is answered     *)
(* 403 and the store stays unchanged.                                       *)
C28_UnsetSecretAuthorizesNothing ==
    secret = NoSecret =>
        /\ \A token \in Tokens : ~TokenOk(token)
        /\ req.endpoint \in {"main", "core"} =>
              /\ pc = "done"
              /\ resp.status = 403
              /\ resp.message = "Invalid API token"
              /\ calls = 0
              /\ ndel = 0
              /\ (writes = 0 => store = store0)

(* the empty token sent to a server without a secret, the store holding     *)
(* entries                                                                  *)
C28_Witness ==
    /\ secret = NoSecret
    /\ req.endpoint \in {"main", "core"}
    /\ req.token = ""
    /\ resp.status = 403
    /\ DOMAIN store = {KeyA, KeyC}

(***************************************************************************)
(* Properties of the cached routes.                                        *)
(***************************************************************************)
ServedFromCache == cres.source = "cache"

(* two Python values are equal: of the same type, with equal content *)
SameValue(a, b) == a.t = b.t /\ a.v = b.v

(* C18: a response value stored under a key and read back within the TTL   *)
(* window comes back unchanged: ORJsonCoder.decode(ORJsonCoder.encode(v))   *)
(* equals v for every value v a route cached with ORJsonCoder returns.      *)
C18_CoderRoundTrip ==
    (ServedFromCache /\ cres.route \in OrjsonRoutes) => SameValue(cres.body, cres.orig)

(* the TTL the routes' entries are to expire under, in seconds *)
ClaimedTtl(route) ==
    CASE route = "redis-health" -> 10
      [] route = "health" -> 60
      [] route \in {"last-close", "mandelbrot-channel"} -> 86000
      [] route = "humblMOMENTUM" -> 86400
      [] route = "humblCOMPASS" -> 2629757

EntriesWithinOwnTtl ==
    /\ \A r \in DOMAIN cache :
          /\ cache[r].expire_at = cache[r].set_at + ClaimedTtl(r)
          /\ now < cache[r].expire_at
    /\ ServedFromCache => cres.age < ClaimedTtl(cres.route)

EntriesKeptUntilOwnTtl ==
    \A r \in DOMAIN cache :
        now' < cache[r].set_at + ClaimedTtl(r) => (r \in DOMAIN cache' /\ cache'[r] = cache[r])

(* C19: a cache entry is absent once the TTL it was written with has        *)
(* elapsed and present until then, and every cached route's entries are     *)
(* written with the route's own TTL: 10 s for redis-health, 60 s for        *)
(* health, 86000 s or 86400 s for the daily routes, 2629757 s for           *)
(* humblCOMPASS.                                                            *)
C19_EntriesExpireUnderOwnTtl ==
    []EntriesWithinOwnTtl /\ [][EntriesKeptUntilOwnTtl]_vars

C19_Witness ==
    /\ now = 60
    /\ cres.route = "health"
    /\ cres.source = "handler"
    /\ "health" \notin DOMAIN cache
    /\ "humblCOMPASS" \in DOMAIN cache
    /\ cache["humblCOMPASS"].set_at = 0

(* C20: GET /health is answered with status 200 and the body                *)
(* {data: {message: 'API is healthy'}, status_code: 200}, whether the       *)
(* response was computed by the handler or served from the cache.           *)
C20_HealthSameFromCache ==
    cres.route = "health" =>
        /\ cres.status = 200
        /\ SameValue(cres.body,
              PyDict(<< <<"data", PyDict(<< <<"message", PyStr("API is healthy")>> >>)>>,
                        <<"status_code", PyInt(200)>> >>))

C20_Witness ==
    /\ cres.route = "health"
    /\ ServedFromCache
    /\ cres.age = 10
    /\ cres.status = 200
    /\ cres.body = HealthBody

(* the steps a request went through are a lookup after the key, then the    *)
(* route function only when nothing was served from the cache, then the     *)
(* write only when the route function answered                              *)
StepsInOrder ==
    cres.route # "none" =>
        /\ cres.steps \in {<<"key", "lookup">>, <<"key", "lookup", "handler">>,
                           <<"key", "lookup", "handler", "write">>}
        /\ (ServedFromCache =>
               (cres.steps = <<"key", "lookup">> /\ cres.age < ClaimedTtl(cres.route)))
        /\ (cres.source = "handler" =>
               cres.steps = IF cres.status = 200
                               THEN <<"key", "lookup", "handler", "write">>
                               ELSE <<"key", "lookup", "handler">>)

(* the routes whose entry a step wrote *)
Written ==
    {r \in DOMAIN cache' : r \notin DOMAIN cache \/ cache'[r].set_at # cache[r].set_at}

WriteOnlyAfterSuccess ==
    /\ \A r \in Written :
          /\ cres'.route = r
          /\ cres'.source = "handler"
          /\ cres'.status = 200
    /\ (now' = now /\ (cres'.source = "cache" \/ cres'.status # 200)) =>
          cache' = cache

(* C23: for every request to a cached route the steps are key              *)
(* construction, store lookup, then the handler only on a miss, then a      *)
(* store write only after the handler completed successfully: a request     *)
(* whose handler raises writes no entry, and a hit within the TTL does not  *)
(* run the handler.                                                         *)
C23_CachedRouteStepOrder ==
    []StepsInOrder /\ [][WriteOnlyAfterSuccess]_vars

(* last-close answered 400 while another route's entry is in the cache *)
C23_Witness ==
    /\ cres.route = "last-close"
    /\ cres.status = 400
    /\ cres.steps = <<"key", "lookup", "handler">>
    /\ DOMAIN cache = {"health"}

PongOnlyAfterPing ==
    cres.route = "redis-health" =>
        /\ cres.status = 200 =>
              /\ SameValue(cres.body,
                    PyDict(<< <<"data", PyDict(<< <<"message", PyStr("PONG")>> >>)>>,
                              <<"status_code", PyInt(200)>> >>))
              /\ \/ (cres.source = "handler" /\ cres.backend = "redis"
                        /\ cres.ping = "pong")
                 \/ (ServedFromCache /\ cres.age <= 10)
        /\ (cres.source = "handler" /\ (cres.backend # "redis" \/ cres.ping # "pong")) =>
              /\ cres.status = 500
              /\ cres.detail # ""

PongCachedOnlyAfterPing ==
    ("redis-health" \in DOMAIN cache' /\ "redis-health" \notin DOMAIN cache) =>
        /\ cres'.route = "redis-health"
        /\ cres'.backend = "redis"
        /\ cres'.ping = "pong"

(* C25: redis-health answers 200 'PONG' only if the cache backend is a      *)
(* Redis backend and a ping to it succeeded for this request or for an      *)
(* identical request at most 10 seconds earlier, whose answer was cached;   *)
(* when the ping returns false, the ping raises or the backend is not       *)
(* Redis, the answer is 500 with an error message.                          *)
C25_PongOnlyAfterSuccessfulPing ==
    []PongOnlyAfterPing /\ [][PongCachedOnlyAfterPing]_vars

(* a ping that returned false, after an earlier PONG had expired *)
C25_Witness ==
    /\ cres.route = "redis-health"
    /\ cres.backend = "redis"
    /\ cres.ping = "false"
    /\ cres.status = 500
    /\ now = 10
    /\ "redis-health" \notin DOMAIN cache

(***************************************************************************)
(* Properties of the cache-only flush.                                     *)
(***************************************************************************)
(* a cache-only flush answered and no request wrote since it began *)
QuietCacheFlushDone ==
    /\ pc = "done"
    /\ req.endpoint = "core"
    /\ req.cacheOnly
    /\ resp.status = 200
    /\ writes = 0

NoEntryLeftAfterCacheFlush ==
    /\ \A k \in NsKeys : StartsWith(k, <<"f","a","s","t","a","p","i","-","c","a","c","h","e",":">>)
    /\ QuietCacheFlushDone => \A k \in NsKeys : k \notin DOMAIN store

NextRequestRunsHandler ==
    (QuietCacheFlushDone /\ pc' = "done" /\ (store' # store \/ cres' # cres)) =>
        /\ cres'.source = "handler"
        /\ cres'.steps = <<"key", "lookup", "handler", "write">>

(* C30: every cache entry written by a cached route has a key that starts   *)
(* with 'fastapi-cache:', the prefix set at start-up, so after a            *)
(* cache-only flush that ran with no concurrent requests none of the        *)
(* application's cache entries remains and the next request to any cached   *)
(* route runs its handler again.                                            *)
C30_CacheFlushEmptiesCache ==
    []NoEntryLeftAfterCacheFlush /\ [][NextRequestRunsHandler]_vars

(* a cache-only flush deleted two entries, kept the other application's     *)
(* key, and a request then ran its handler                                  *)
C30_Witness ==
    /\ pc = "done"
    /\ req.cacheOnly
    /\ resp.status = 200
    /\ resp.records_deleted = 2
    /\ ndel = 2
    /\ DOMAIN store0 = {CacheKey(HumblCompassNs, <<"0","a">>), CacheKey(DefaultNs, <<"f","1">>),
                        KeyC}
    /\ DOMAIN store = {CacheKey(HumblCompassNs, <<"0","a">>), KeyC}
    /\ store[CacheKey(HumblCompassNs, <<"0","a">>)] = "v2"
    /\ cres.source = "handler"

====
